---- MODULE Spec2Model ----
(***************************************************************************)
(* Model of skhyper.process.Process (src/skhyper/process/_process.py):     *)
(* the constructor pipeline (_data_checks, _data_scale, _data_flatten,     *)
(* _data_mean, _data_access), the pass-through __getitem__ and the two     *)
(* lazy accessors _AccessImage and _AccessSpectrum.                        *)
(*                                                                         *)
(* Arrays are numpy arrays: a shape and one element per index tuple.       *)
(* Array objects live in a heap and are named by references, so that       *)
(* aliasing between the caller's array, Process.data and the accessors'    *)
(* data is part of the state.  Elements are IEEE floats restricted to the  *)
(* values that arise here: exact fractions <<n, d>> with d > 0, and the    *)
(* three special values inf = <<1, 0>>, -inf = <<-1, 0>> and               *)
(* nan = <<0, 0>> that numpy's true division produces on a zero divisor.   *)
(***************************************************************************)
EXTENDS Integers, Sequences, FiniteSets, TLC

\* Largest length of one axis of an input array.
MaxDim == 3
\* Largest number of elements of an input array.
MaxSize == 6
\* Ranks of the input arrays (3 and 4 are the accepted ones).
Ranks == {2, 3, 4, 5}
\* Element values of the input arrays.
Vals == {-3, 0, 2}
\* First elements of the input arrays start + np.arange(size).reshape(shape).
RampStarts == {-3, 0}

VARIABLES
    X,      \* reference to the caller's object, the constructor's argument X
    scale,  \* the constructor's argument scale
    heap,   \* reference -> object (numpy array or list)
    self,   \* the fields of the Process object
    pc,     \* "new" before Process(X, scale), then "done" or "failed"
    err,    \* the exception Process(X, scale) raised, or NoErr
    res     \* the last wrapper[item], image[item] or spectrum[item] call

vars == <<X, scale, heap, self, pc, err, res>>

None == [kind |-> "None"]
NoErr == "NoErr"

Ok(v) == [err |-> NoErr, val |-> v]
Raise(e) == [err |-> e, val |-> None]

----------------------------------------------------------------------------
(* Floats. *)

Abs(n) == IF n < 0 THEN -n ELSE n
Sgn(n) == IF n < 0 THEN -1 ELSE IF n > 0 THEN 1 ELSE 0

RECURSIVE GCD(_, _)
GCD(a, b) == IF b = 0 THEN a ELSE GCD(b, a % b)

\* The float n/d, d >= 0, in lowest terms; d = 0 gives inf, -inf or nan.
Float(n, d) ==
    IF d = 0 THEN <<Sgn(n), 0>>
    ELSE LET g == GCD(Abs(n), d) IN <<n \div g, d \div g>>

NaN == <<0, 0>>
IsFinite(x) == x[2] > 0
IsNaN(x) == x = NaN

\* x + y
FAdd(x, y) ==
    IF IsFinite(x) /\ IsFinite(y) THEN Float(x[1] * y[2] + y[1] * x[2], x[2] * y[2])
    ELSE IF IsNaN(x) \/ IsNaN(y) THEN NaN
    ELSE IF IsFinite(x) THEN y
    ELSE IF IsFinite(y) THEN x
    ELSE IF x = y THEN x ELSE NaN

\* x / y (true division: a zero divisor gives inf, -inf or nan, no exception)
FDivide(x, y) ==
    IF IsNaN(x) \/ IsNaN(y) THEN NaN
    ELSE IF IsFinite(x) /\ IsFinite(y) THEN
        IF y[1] = 0 THEN <<Sgn(x[1]), 0>>
        ELSE Float(x[1] * y[2] * Sgn(y[1]), x[2] * Abs(y[1]))
    ELSE IF IsFinite(x) THEN <<0, 1>>
    ELSE IF IsFinite(y) THEN <<x[1] * (IF y[1] < 0 THEN -1 ELSE 1), 0>>
    ELSE NaN

\* x < y on finite floats
FLess(x, y) == x[1] * y[2] < y[1] * x[2]

\* np.abs on one element
FAbs(x) == <<Abs(x[1]), x[2]>>

----------------------------------------------------------------------------
(* Arrays. *)

RECURSIVE Size(_)
Size(shape) == IF Len(shape) = 0 THEN 1 ELSE Head(shape) * Size(Tail(shape))

SeqMax(s) == IF Len(s) = 0 THEN 0 ELSE CHOOSE m \in {s[i] : i \in 1..Len(s)} : \A i \in 1..Len(s) : s[i] <= m

\* The index tuples (0-based) of an array of the given shape.
IndexSet(shape) ==
    {t \in [1..Len(shape) -> 0..(SeqMax(shape) - 1)] : \A i \in 1..Len(shape) : t[i] < shape[i]}

ndarray(shape, elems) == [kind |-> "ndarray", shape |-> shape, elems |-> elems]

Insert(t, axis, k) ==
    [i \in 1..(Len(t) + 1) |-> IF i <= axis THEN t[i] ELSE IF i = axis + 1 THEN k ELSE t[i - 1]]

Remove(s, p) == [i \in 1..(Len(s) - 1) |-> IF i < p THEN s[i] ELSE s[i + 1]]

\* The sum of the n elements of A along `axis` at the other indices t.
RECURSIVE SumAlong(_, _, _, _)
SumAlong(A, t, axis, n) ==
    IF n = 0 THEN <<0, 1>>
    ELSE FAdd(SumAlong(A, t, axis, n - 1), A.elems[Insert(t, axis, n - 1)])

\* np.mean(A, axis): AxisError when A has no such axis; the mean over an
\* axis of length 0 is 0/0 = nan.
mean(A, axis) ==
    IF axis >= Len(A.shape) THEN Raise("AxisError")
    ELSE LET n == A.shape[axis + 1]
             sh == Remove(A.shape, axis + 1)
         IN Ok(ndarray(sh, [t \in IndexSet(sh) |-> FDivide(SumAlong(A, t, axis, n), <<n, 1>>)]))

\* The members of a set of axis positions as an increasing sequence.
Ordered(P) ==
    [j \in 1..Cardinality(P) |-> CHOOSE i \in P : Cardinality({q \in P : q < i}) = j - 1]

\* The positions of the axes np.squeeze keeps, in order.
Kept(shape) == Ordered({i \in 1..Len(shape) : shape[i] # 1})

\* np.squeeze(A): the axes of length 1 are removed.
squeeze(A) ==
    LET kp == Kept(A.shape)
        sh == [j \in 1..Len(kp) |-> A.shape[kp[j]]]
    IN ndarray(sh, [u \in IndexSet(sh) |->
           A.elems[[i \in 1..Len(A.shape) |->
               IF A.shape[i] = 1 THEN 0 ELSE u[CHOOSE j \in 1..Len(kp) : kp[j] = i]]]])

\* Position of index tuple t in the row-major (C order) enumeration.
RECURSIVE Ravel(_, _, _)
Ravel(t, shape, n) == IF n = 0 THEN 0 ELSE Ravel(t, shape, n - 1) * shape[n] + t[n]

\* The index tuple at row-major position l.
Unravel(l, shape) ==
    [i \in 1..Len(shape) |-> (l \div Size(SubSeq(shape, i + 1, Len(shape)))) % shape[i]]

\* reshape in column-major (Fortran) order to a 2-D shape.
reshape_F(A, newshape) ==
    IF Size(newshape) # Size(A.shape) THEN Raise("ValueError")
    ELSE Ok(ndarray(newshape, [u \in IndexSet(newshape) |->
             A.elems[[i \in 1..Len(A.shape) |->
                 ((u[1] + u[2] * newshape[1]) \div Size(SubSeq(A.shape, 1, i - 1)))
                     % A.shape[i]]]]))

\* np.reshape(A, newshape), C order.
reshape(A, newshape) ==
    IF Size(newshape) # Size(A.shape) THEN Raise("ValueError")
    ELSE Ok(ndarray(newshape, [u \in IndexSet(newshape) |->
             A.elems[Unravel(Ravel(u, newshape, Len(newshape)), A.shape)]]))

\* np.max(A) over all elements: ValueError on an array without elements.
max(A) ==
    IF IndexSet(A.shape) = {} THEN Raise("ValueError")
    ELSE Ok(CHOOSE m \in {A.elems[t] : t \in IndexSet(A.shape)} :
                \A t \in IndexSet(A.shape) : ~FLess(m, A.elems[t]))

Min(a, b) == IF a < b THEN a ELSE b

\* Index entries: slice(None), slice(lo, hi) and an integer position.
All == [kind |-> "all", lo |-> 0, hi |-> 0]
Slice(lo, hi) == [kind |-> "slice", lo |-> lo, hi |-> hi]
At(k) == [kind |-> "int", lo |-> k, hi |-> 0]

\* A[item], basic indexing with a tuple of slices and non-negative integers:
\* an integer removes its axis, a slice is clipped to the axis, the axes the
\* tuple does not name are kept whole.  IndexError on too many indices or
\* an integer out of range.
getitem(A, item) ==
    LET n == Len(A.shape)
        entry(i) == IF i <= Len(item) THEN item[i] ELSE All
        start(i) == IF entry(i).kind = "all" THEN 0 ELSE Min(entry(i).lo, A.shape[i])
        stop(i) == IF entry(i).kind = "all" THEN A.shape[i] ELSE Min(entry(i).hi, A.shape[i])
        length(i) == IF stop(i) > start(i) THEN stop(i) - start(i) ELSE 0
        kp == Ordered({i \in 1..n : entry(i).kind # "int"})
        sh == [j \in 1..Len(kp) |-> length(kp[j])]
    IN IF Len(item) > n THEN Raise("IndexError")
       ELSE IF \E i \in 1..n : entry(i).kind = "int" /\ entry(i).lo >= A.shape[i]
       THEN Raise("IndexError")
       ELSE Ok(ndarray(sh, [u \in IndexSet(sh) |->
                A.elems[[i \in 1..n |->
                    IF entry(i).kind = "int" THEN entry(i).lo
                    ELSE start(i) + u[CHOOSE j \in 1..Len(kp) : kp[j] = i]]]]))

----------------------------------------------------------------------------
(* class Process *)

\* The fields __init__ sets before the data operations.
Fields(x) ==
    [data |-> x, shape |-> None, n_dimension |-> None, n_features |-> None,
     n_samples |-> None, flat |-> None, image |-> None, spectrum |-> None,
     mean_image |-> None, mean_spectrum |-> None]

\* The methods below take and return st = [self, heap, err]; err # NoErr is
\* the exception the method raised.

_data_checks(st) ==
    LET d == st.heap[st.self.data] IN
    IF d.kind # "ndarray" THEN [st EXCEPT !.err = "TypeError"]
    ELSE
    LET shape == d.shape
        nd == Len(shape)
        s1 == [st.self EXCEPT !.shape = shape, !.n_dimension = nd]
    IN IF nd # 3 /\ nd # 4 THEN [st EXCEPT !.self = s1, !.err = "TypeError"]
       ELSE
       LET ns == IF nd = 3 THEN shape[1] * shape[2] ELSE shape[1] * shape[2] * shape[3]
           nf == IF nd = 3 THEN shape[3] ELSE shape[4]
           s2 == [s1 EXCEPT !.n_samples = ns, !.n_features = nf]
       IN IF ~(ns > nf) THEN [st EXCEPT !.self = s2, !.err = "TypeError"]
          ELSE [st EXCEPT !.self = s2]

\* A reference no object of the heap has.
NewRef(h) == Cardinality(DOMAIN h) + 1

\* self.data /= np.abs(np.max(self.data)): the division done in place.
_data_scale_inplace(st) ==
    LET d == st.heap[st.self.data]
        m == max(d)
    IN IF m.err # NoErr THEN [st EXCEPT !.err = m.err]
       ELSE [st EXCEPT
                !.heap[st.self.data] = ndarray(d.shape,
                    [t \in IndexSet(d.shape) |-> FDivide(d.elems[t], FAbs(m.val))])]

\* self.data = self.data / np.abs(np.max(self.data)): a new array, the
\* operand is left alone.
_data_scale(st) ==
    LET d == st.heap[st.self.data]
        m == max(d)
        r == NewRef(st.heap)
    IN IF m.err # NoErr THEN [st EXCEPT !.err = m.err]
       ELSE [st EXCEPT
                !.heap = st.heap @@ (r :> ndarray(d.shape,
                             [t \in IndexSet(d.shape) |-> FDivide(d.elems[t], FAbs(m.val))])),
                !.self.data = r]

_data_flatten(st) ==
    LET d == st.heap[st.self.data]
        shape == st.self.shape
        f == IF st.self.n_dimension = 3
             THEN reshape(d, <<shape[1] * shape[2], shape[3]>>)
             ELSE reshape(d, <<shape[1] * shape[2] * shape[3], shape[4]>>)
    IN IF f.err # NoErr THEN [st EXCEPT !.err = f.err]
       ELSE [st EXCEPT !.self.flat = f.val]

\* _data_mean without the squeeze of mean_spectrum.
_data_mean_nosqueeze(st) ==
    LET d == st.heap[st.self.data] IN
    IF st.self.n_dimension = 3
    THEN [st EXCEPT !.self.mean_image = squeeze(mean(d, 2).val),
                    !.self.mean_spectrum = mean(mean(d, 1).val, 0).val]
    ELSE [st EXCEPT !.self.mean_image = squeeze(mean(d, 3).val),
                    !.self.mean_spectrum = mean(mean(mean(d, 2).val, 1).val, 0).val]

_data_mean(st) ==
    LET d == st.heap[st.self.data] IN
    IF st.self.n_dimension = 3
    THEN [st EXCEPT !.self.mean_image = squeeze(mean(d, 2).val),
                    !.self.mean_spectrum = squeeze(mean(mean(d, 1).val, 0).val)]
    ELSE [st EXCEPT !.self.mean_image = squeeze(mean(d, 3).val),
                    !.self.mean_spectrum =
                        squeeze(mean(mean(mean(d, 2).val, 1).val, 0).val)]

\* The accessor objects _AccessImage(X, shape, n_dimension) and
\* _AccessSpectrum(X, shape, n_dimension): data is a reference.
Accessor(x, shape, nd) == [data |-> x, shape |-> shape, n_dimension |-> nd]

\* _data_access handing the accessors the constructor's argument X (the
\* array before scaling) instead of self.data.
_data_access_X(st) ==
    [st EXCEPT !.self.image = Accessor(1, st.self.shape, st.self.n_dimension),
               !.self.spectrum = Accessor(1, st.self.shape, st.self.n_dimension)]

_data_access(st) ==
    [st EXCEPT !.self.image = Accessor(st.self.data, st.self.shape, st.self.n_dimension),
               !.self.spectrum = Accessor(st.self.data, st.self.shape, st.self.n_dimension)]

\* Process.__init__(X, scale): the first exception ends it.
__init__(x, sc, h) ==
    LET s0 == [self |-> Fields(x), heap |-> h, err |-> NoErr]
        s1 == _data_checks(s0)
        s2 == IF s1.err = NoErr /\ sc THEN _data_scale(s1) ELSE s1
        s3 == IF s2.err = NoErr THEN _data_flatten(s2) ELSE s2
        s4 == IF s3.err = NoErr THEN _data_mean(s3) ELSE s3
        s5 == IF s4.err = NoErr THEN _data_access(s4) ELSE s4
    IN s5

\* Process.__getitem__
Process__getitem__(slf, h, item) == getitem(h[slf.data], item)

\* _AccessImage.__getitem__
_AccessImage__getitem__(acc, h, item) ==
    LET a == getitem(h[acc.data], item)
        m == IF a.err # NoErr THEN a
             ELSE IF acc.n_dimension = 3 THEN mean(a.val, 2) ELSE mean(a.val, 3)
    IN IF m.err # NoErr THEN m ELSE Ok(squeeze(m.val))

\* _AccessSpectrum.__getitem__
_AccessSpectrum__getitem__(acc, h, item) ==
    LET a == getitem(h[acc.data], item)
        m2 == IF a.err # NoErr \/ acc.n_dimension = 3 THEN a ELSE mean(a.val, 2)
        m1 == IF m2.err # NoErr THEN m2 ELSE mean(m2.val, 1)
        m0 == IF m1.err # NoErr THEN m1 ELSE mean(m1.val, 0)
    IN IF m0.err # NoErr THEN m0 ELSE Ok(squeeze(m0.val))

----------------------------------------------------------------------------
(* Inputs. *)

\* The shapes of the input arrays.
Shapes ==
    {s \in UNION {[1..r -> 0..MaxDim] : r \in Ranks} : Size(s) <= MaxSize}

\* The numpy arrays with elements in V.
Arrays(V) ==
    {ndarray(s, e) : <<s, e>> \in
        UNION {{s} \X [IndexSet(s) -> {<<v, 1>> : v \in V}] : s \in Shapes}}

\* The numpy arrays start + np.arange(size).reshape(shape): the elements
\* count up in row-major order, so that no two of them are equal.
Ramps(S) ==
    {ndarray(s, [t \in IndexSet(s) |-> <<v + Ravel(t, s, Len(s)), 1>>]) :
        <<s, v>> \in Shapes \X S}

\* Nested lists: the same contents, but not a numpy array.
Lists(A) == {[a EXCEPT !.kind = "list"] : a \in {b \in A : Len(b.shape) = 3}}

\* The index expressions: one entry per leading (spatial) axis.
Entries == {All, Slice(1, 2), At(1)}
Items(nd) == [1..(nd - 1) -> Entries]

NoCall == [op |-> "none", item |-> <<>>, err |-> NoErr, val |-> None]
Call(op, item, r) == [op |-> op, item |-> item, err |-> r.err, val |-> r.val]

----------------------------------------------------------------------------
(* The state machine. *)

InitWith(A) ==
    /\ X = 1
    /\ scale \in BOOLEAN
    /\ \E o \in A \cup Lists(A) : heap = (1 :> o)
    /\ self = Fields(None)
    /\ pc = "new"
    /\ err = NoErr
    /\ res = NoCall

Init == InitWith(Arrays(Vals))

\* X = Process(X, scale)
Construct ==
    /\ pc = "new"
    /\ LET st == __init__(X, scale, heap)
       IN /\ self' = st.self
          /\ heap' = st.heap
          /\ err' = st.err
          /\ pc' = IF st.err = NoErr THEN "done" ELSE "failed"
    /\ UNCHANGED <<X, scale, res>>

\* wrapper[item]
GetItem ==
    /\ pc = "done"
    /\ \E item \in Items(self.n_dimension) :
           res' = Call("getitem", item, Process__getitem__(self, heap, item))
    /\ UNCHANGED <<X, scale, heap, self, pc, err>>

\* wrapper.image[item]
ImageGetItem ==
    /\ pc = "done"
    /\ \E item \in Items(self.n_dimension) :
           res' = Call("image", item, _AccessImage__getitem__(self.image, heap, item))
    /\ UNCHANGED <<X, scale, heap, self, pc, err>>

\* wrapper.spectrum[item]
SpectrumGetItem ==
    /\ pc = "done"
    /\ \E item \in Items(self.n_dimension) :
           res' = Call("spectrum", item, _AccessSpectrum__getitem__(self.spectrum, heap, item))
    /\ UNCHANGED <<X, scale, heap, self, pc, err>>

\* Construction alone.
Next == Construct

Spec == Init /\ [][Next]_vars

\* Construction followed by any number of accesses.
NextAccess == Construct \/ GetItem \/ ImageGetItem \/ SpectrumGetItem

InitAccess == InitWith(Ramps(RampStarts))

SpecAccess == InitAccess /\ [][NextAccess]_vars

----------------------------------------------------------------------------
(* Properties. *)

Constructed == pc = "done"
IsArray == heap[X].kind = "ndarray"
InShape == heap[X].shape
\* The array the wrapper holds.
Data == heap[self.data]

\* samples and features of a shape: the product of all axes but the last,
\* and the last axis.
Samples(s) == Size(SubSeq(s, 1, Len(s) - 1))
Features(s) == s[Len(s)]
ValidShape(s) == Len(s) \in {3, 4} /\ Samples(s) > Features(s)

\* The largest absolute value of the elements of a non-empty array.
MaxAbs(A) ==
    CHOOSE m \in {FAbs(A.elems[t]) : t \in IndexSet(A.shape)} :
        \A t \in IndexSet(A.shape) : ~FLess(m, FAbs(A.elems[t]))

HasMaxAbs == IndexSet(InShape) # {} /\ MaxAbs(heap[X])[1] > 0

\* lo <= x <= hi for integers lo, hi and a float x
Between(x, lo, hi) == IsFinite(x) /\ lo * x[2] <= x[1] /\ x[1] <= hi * x[2]

\* C1: with scale=true and a positive largest absolute value M of the
\* input, every element of the wrapper's array is the input element
\* divided by M.
C1_ScaledByMaxAbs ==
    (Constructed /\ scale /\ HasMaxAbs) =>
        \A t \in IndexSet(InShape) :
            Data.elems[t] = FDivide(heap[X].elems[t], MaxAbs(heap[X]))

\* The exception construction raises on an input that is not an array.
NonArrayError == _data_checks([self |-> Fields(1), heap |-> (1 :> [kind |-> "list"]),
                               err |-> NoErr]).err

\* C2: construction of an array whose rank is not 3 or 4, or whose samples
\* do not exceed its features, fails with an error of another kind than the
\* one raised for an input that is not an array.
C2_InvalidShapeError ==
    (pc # "new" /\ IsArray /\ ~ValidShape(InShape)) =>
        (pc = "failed" /\ err # NonArrayError)

DimsOfInput ==
    /\ pc = "done"
    /\ self.n_samples = Samples(InShape)
    /\ self.n_features = Features(InShape)
    /\ self.flat.shape = <<Samples(InShape), Features(InShape)>>
    /\ self.n_dimension = Len(InShape)

\* C4: construction of every 3-D or 4-D array with samples > features
\* yields n_samples = samples, n_features = features,
\* flat.shape = (samples, features) and n_dimension = rank.
C4_Dims ==
    (pc # "new" /\ IsArray /\ ValidShape(InShape)) => DimsOfInput

\* Lemma: the only valid inputs whose construction does not yield these
\* values are the arrays without spectral channels (features = 0) under
\* scale=true.
DimsNonEmpty ==
    (pc # "new" /\ IsArray /\ ValidShape(InShape) /\ ~(scale /\ Features(InShape) = 0))
        => DimsOfInput

\* C5: with scale=true and a positive largest absolute value of the input,
\* every element of the wrapper's array lies in [0, 1] when the input has no
\* negative element and in [-1, 1] when it has one.
C5_ScaledRange ==
    (Constructed /\ scale /\ HasMaxAbs) =>
        \A t \in IndexSet(InShape) :
            IF \E u \in IndexSet(InShape) : heap[X].elems[u][1] < 0
            THEN Between(Data.elems[t], -1, 1)
            ELSE Between(Data.elems[t], 0, 1)

\* The index that selects the whole array.
FullSlice == [i \in 1..(self.n_dimension - 1) |-> All]

\* C6: image[full slice] is mean_image and spectrum[full slice] is
\* mean_spectrum, element for element (nan equal to nan), with and without
\* scaling.
C6_FullSliceIsMean ==
    /\ (res.op = "image" /\ res.item = FullSlice) =>
           (res.err = NoErr /\ res.val = self.mean_image)
    /\ (res.op = "spectrum" /\ res.item = FullSlice) =>
           (res.err = NoErr /\ res.val = self.mean_spectrum)

C6_Witness ==
    /\ res.op = "spectrum"
    /\ res.item = FullSlice
    /\ scale
    /\ self.n_dimension = 4
    /\ self.n_features = 2
    /\ \E t \in IndexSet(InShape) : IsFinite(Data.elems[t]) /\ Data.elems[t] # heap[X].elems[t]
    /\ res.val = self.mean_spectrum

\* wrapper[i, j, ...] for one integer position per axis.
ElementAt(t) == Process__getitem__(self, heap, [n \in 1..Len(t) |-> At(t[n])]).val.elems[<<>>]

\* C7: flat[i*b + j, k] = wrapper[i, j, k] for a 3-D wrapper of shape
\* (a, b, c) and flat[(i*b + j)*c + l, k] = wrapper[i, j, l, k] for a 4-D
\* wrapper of shape (a, b, c, d), with and without scaling.
C7_FlatRowMajor ==
    Constructed =>
        \A t \in IndexSet(self.shape) :
            IF self.n_dimension = 3
            THEN self.flat.elems[<<t[1] * self.shape[2] + t[2], t[3]>>] = ElementAt(t)
            ELSE self.flat.elems[<<(t[1] * self.shape[2] + t[2]) * self.shape[3] + t[3], t[4]>>]
                     = ElementAt(t)

C7_Witness ==
    /\ Constructed
    /\ scale
    /\ self.shape = <<2, 2, 1>>
    /\ self.flat.elems[<<1, 0>>] = ElementAt(<<0, 1, 0>>)
    /\ self.flat.elems[<<1, 0>>] # ElementAt(<<1, 0, 0>>)
    /\ Data # heap[X]

\* The index of the last call is one the array accepts.
Accepted == getitem(Data, res.item).err = NoErr
\* The shape of the slice the index of the last call selects.
SliceShape == getitem(Data, res.item).val.shape

\* C8: spectrum[index], for an index the array accepts, averages over the
\* spatial axes only: the result has one value per spectral channel (0-d
\* only when the squeeze collapses that axis).
C8_SpectrumPerChannel ==
    (res.op = "spectrum" /\ Accepted) =>
        /\ res.err = NoErr
        /\ res.val.shape = IF self.n_features = 1 THEN <<>> ELSE <<self.n_features>>

\* C9: image[index], for an index the array accepts, returns without error
\* an array whose rank is the number of spatial axes of the slice that are
\* not of length 1.
C9_ImageRank ==
    (res.op = "image" /\ Accepted) =>
        /\ res.err = NoErr
        /\ Len(res.val.shape) =
               Cardinality({i \in 1..(Len(SliceShape) - 1) : SliceShape[i] # 1})

\* C10: no step changes the caller's array; scaling leaves the wrapper with
\* a new array; after construction the wrapper's array is never changed.
C10_Frame ==
    [][/\ X' = X
       /\ heap'[X] = heap[X]
       /\ (pc = "new" /\ pc' = "done" /\ scale) =>
              (self'.data # X /\ self'.data \notin DOMAIN heap)
       /\ (pc = "new" /\ pc' = "done" /\ ~scale) => heap' = heap
       /\ pc = "done" => (self' = self /\ heap' = heap)]_vars

C10_Witness ==
    /\ Constructed
    /\ scale
    /\ res.op = "spectrum"
    /\ res.err = NoErr
    /\ self.n_dimension = 3
    /\ Data # heap[X]
    /\ heap[X].elems[<<0, 0, 0>>] = <<-3, 1>>

====
